---- MODULE Spec2Model ----
(***************************************************************************)
(* life-dots: the DotGrid canvas component (grid layout, pointer hit      *)
(* testing, camera animation, effect lifecycle) together with the views   *)
(* that host it (App, CalendarView).                                       *)
(*                                                                         *)
(* Lengths that the code keeps as floating point numbers are kept here as  *)
(* integers of a fixed resolution: pointer coordinates in half pixels,     *)
(* translations in 1/TU pixel, scales in 1/KU, interpolation factors in    *)
(* 1/FU.  Frame timestamps are counted in frames of 16 ms.                 *)
(***************************************************************************)
EXTENDS Integers, FiniteSets, Sequences, TLC

\* JavaScript values that are not numbers, kept apart from every number the
\* model uses
Null == -9001
Undef == -9002
NaN == -9003
\* the callback was not called
NoCall == -9004

IsNumber(v) == v \notin {Null, Undef, NaN}

-----------------------------------------------------------------------------
\* Bounds of the model
MaxDots == 5
MaxDotSize == 3
MaxGap == 2
MaxPeriod == 2
MaxProbeWidth == 100
\* frames (of 16 ms) between two animation ticks
FrameStep == 4
\* frames that pass while no tick is requested
MaxIdle == 16
\* focus changes made while the animation is in flight, per behaviour
MaxRetargets == 1
\* dots of the animated specification
MainDots == 3
MaxFrameGap == 2
StartOffset == 30
\* the storage clock runs over 0..MaxMillis; the calendar list is capped
MaxMillis == 1
MaxCalendars == 3
\* habit dates tried: days 0..MaxDay
MaxDay == 1
PaintDots == 3
MaxPixelRatio == 4

\* Resolution of the fixed-point numbers
TU == 10
KU == 10000
FU == 10000

\* the window of the animated specification
ViewportWidth == 130
ViewportHeight == 120
WidthStep == 18
RectTopSample == 20

\* Program constants
PADDING == 40
\* the sizes the views pass to the grid
AppDotSize == 6
AppDotGap == 4
WeekDotSize == 40
WeekDotGap == 20
CalendarDotSize == 10
CalendarDotGap == 8
DefaultDotSize == 6
DefaultDotGap == 4
DefaultCanvasWidth == 300
DefaultCanvasHeight == 150
\* speed = 0.12, in percent
SpeedPercent == 12
\* the target scale fits 5 dots
ZoomDots == 5
\* 1 / 0.001 and 1 / 0.5: the distances below which the animation stops
ScaleEpsilonInv == 1000
TranslateEpsilonInv == 2

-----------------------------------------------------------------------------
VARIABLES
    \* props and theme of the grid
    host,            \* the view that renders the grid: "App" or "CalendarView"
    calendarType,    \* CalendarView's calendarConfig.type
    calendarId,      \* CalendarView's prop calendarId
    totalDots,
    passedDots,
    customDotSize,   \* prop: Undef or a number
    customGap,       \* prop: Undef or a number
    cssDotSize,      \* parseInt of --dot-size: NaN or a number
    cssDotGap,       \* parseInt of --dot-gap: NaN or a number
    getDotColor,     \* prop: NoOverride, or the result for each index
    \* storage module
    localStorage,    \* the items the storage module keeps: [calendars, data]
    dateNow,         \* what Date.now() returns, in milliseconds
    returned,        \* the last call of the storage module: [op, id, date, value]
    \* DOM
    containerWidth,  \* containerRef.current.clientWidth
    canvasStyleWidth,\* canvas.style.width as draw left it (Undef: never drawn)
    canvasPixelWidth,   \* canvas.width and canvas.height: the backing store, whole pixels
    canvasPixelHeight,
    frame,           \* what the last draw painted: [cells, aborted]
    \* host state
    zoomedIndex,     \* Null, Undef (prop not passed) or a number
    focusedDate,     \* Null or the index whose date the day view shows
    \* component state
    mounted,
    dimensionsWidth, \* dimensions.width
    hoveredIndex,    \* Null or a number
    currentTransform,   \* currentTransform.current: [x, y, k]
    animationFrameRef,  \* animationFrameRef.current: 0 or a request id
    rafPending,         \* requested frames: [id, zoomed], zoomed the zoomedIndex
                        \* the requesting effect closed over
    sinceLastRender,    \* Null while lastRenderTime.current is 0, else the
                        \* frames passed since the time stored there
    intervalActive,     \* the 60 s interval is set
    \* window
    innerWidth,
    innerHeight,
    rectLeft,           \* canvas.getBoundingClientRect().left and .top
    rectTop,
    devicePixelRatio,   \* window.devicePixelRatio, in halves
    now,                \* the wall clock new Date() reads: [hours, minutes, seconds]
    \* observations
    lastPointer,     \* the pointer event of the last step: [kind, x, y, focus, atRest, fired]:
                     \* focus = zoomedIndex and atRest = the transform was the
                     \* identity when it came, fired = the index given to
                     \* onDotClick or NoCall
    ranUnmounted,    \* a tick or an interval callback ran on an unmounted grid
    retargets,       \* focus changes made so far while the animation was in flight
    probe            \* a direct application of getGridMetrics: [width, cols]

\* the props and theme values no handler changes
gridProps == <<host, calendarType, calendarId, totalDots, passedDots, customDotSize,
               customGap, cssDotSize, cssDotGap>>

\* the storage module's items, its clock and the observation of its calls
storageVars == <<localStorage, dateNow, returned>>

propVars == <<gridProps, getDotColor, storageVars>>

windowVars == <<innerWidth, innerHeight, rectLeft, rectTop, devicePixelRatio, now>>

\* the canvas element and what is painted on it
canvasVars == <<canvasStyleWidth, canvasPixelWidth, canvasPixelHeight, frame>>

animVars == <<currentTransform, animationFrameRef, rafPending, sinceLastRender>>

vars == <<propVars, windowVars, animVars, containerWidth, canvasVars,
          zoomedIndex, focusedDate, mounted, dimensionsWidth, hoveredIndex,
          intervalActive, lastPointer, ranUnmounted, retargets, probe>>

-----------------------------------------------------------------------------
\* JavaScript helpers

Max(a, b) == IF a >= b THEN a ELSE b
Min(a, b) == IF a <= b THEN a ELSE b
Abs(a) == IF a >= 0 THEN a ELSE -a

\* v || w for a number-or-undefined/NaN v: 0, NaN and undefined are falsy
Truthy(v) == v \notin {Undef, NaN, Null, 0}
OrElse(v, w) == IF Truthy(v) THEN v ELSE w

\* Math.floor(a / b) for b > 0
FloorDiv(a, b) == a \div b

\* a / b rounded to the nearest integer, b > 0
RoundDiv(a, b) == FloorDiv(2 * a + b, 2 * b)

\* a % b in JavaScript: the sign follows the dividend
JsMod(a, b) == IF a >= 0 THEN a % b ELSE -((-a) % b)

-----------------------------------------------------------------------------
\* getGridMetrics

ResolvedDotSize == OrElse(customDotSize, OrElse(cssDotSize, DefaultDotSize))

ResolvedDotGap == IF customGap # Undef THEN customGap ELSE OrElse(cssDotGap, DefaultDotGap)

ColsUnclamped(canvasWidth, dotSize, dotGap) ==
    FloorDiv((canvasWidth - (PADDING * 2)) + dotGap, dotSize + dotGap)

Cols(canvasWidth, dotSize, dotGap) ==
    Max(1, FloorDiv((canvasWidth - (PADDING * 2)) + dotGap, dotSize + dotGap))

GetGridMetrics(canvasWidth) ==
    [cols |-> Cols(canvasWidth, ResolvedDotSize, ResolvedDotGap),
     effectiveDotWidth |-> ResolvedDotSize + ResolvedDotGap,
     dotSize |-> ResolvedDotSize,
     dotGap |-> ResolvedDotGap,
     padding |-> PADDING]

-----------------------------------------------------------------------------
\* draw: the part that sizes the canvas

\* canvas.clientWidth: the style width draw set, or the default of a new canvas
CanvasClientWidth(styleWidth) ==
    IF styleWidth = Undef THEN DefaultCanvasWidth ELSE styleWidth

\* const availableWidth = dimensions.width || canvas.clientWidth
AvailableWidth(dimWidth, styleWidth) == OrElse(dimWidth, CanvasClientWidth(styleWidth))

\* the quotient of a positive number by zero in JavaScript, kept as a number
\* larger than every height of the model
Infinity == 1000000

\* const rows = Math.ceil(totalDots / cols); cols is at least 1 in getGridMetrics
Rows(cols) ==
    IF cols = 0 THEN (IF totalDots = 0 THEN 0 ELSE Infinity)
    ELSE (totalDots + cols - 1) \div cols

\* totalHeight in draw
TotalHeight(availableWidth) ==
    LET m == GetGridMetrics(availableWidth)
        gridHeight == Rows(m.cols) * m.effectiveDotWidth - m.dotGap
    IN  Max(gridHeight + 2 * m.padding, innerHeight)

\* const pixelRatio = window.devicePixelRatio || 1, in halves
PixelRatio == OrElse(devicePixelRatio, 2)

\* a canvas element as created: no style width, the default backing store
NewCanvas ==
    [styleWidth |-> Undef, width |-> DefaultCanvasWidth, height |-> DefaultCanvasHeight]

Canvas == [styleWidth |-> canvasStyleWidth, width |-> canvasPixelWidth, height |-> canvasPixelHeight]

\* what canvas.width holds after canvas.width = v, v given in half pixels:
\* the attribute is an integer
StoredPixels(v) == v \div 2

\* canvas.width !== availableWidth * pixelRatio || canvas.height !== totalHeight * pixelRatio
NeedsResize(c, availableWidth) ==
    \/ 2 * c.width # availableWidth * PixelRatio
    \/ 2 * c.height # TotalHeight(availableWidth) * PixelRatio

\* the canvas after the sizing part of draw
ResizeCanvas(c, dimWidth) ==
    LET availableWidth == AvailableWidth(dimWidth, c.styleWidth)
    IN  IF NeedsResize(c, availableWidth)
        THEN [styleWidth |-> availableWidth,
              width |-> StoredPixels(availableWidth * PixelRatio),
              height |-> StoredPixels(TotalHeight(availableWidth) * PixelRatio)]
        ELSE c

\* the canvas after the effects of a mount have run: the first draw sees
\* dimensions.width = 0, the second the measured container width
CanvasAfterMount(width) == ResizeCanvas(ResizeCanvas(NewCanvas, 0), width)

-----------------------------------------------------------------------------
\* draw: the loop that paints the dots

\* getColors with no theme variable set
PastColor == "#555"
TodayColor == "#00ff88"
FutureColor == "#222"
BgColor == "#111"

HoverPastColor == "#888"
HoverFutureColor == "#444"

\* the fill style that is the gradient of the today dot
Gradient == "gradient"

\* const darkGreen = 'rgba(0, 255, 136, 0.25)'
DarkGreen == "rgba(0, 255, 136, 0.25)"

\* lengths of the paint are in 1/YU px, gradient offsets in 1/SecondsPerDay
YU == 40
SecondsPerDay == 86400

Noon == [hours |-> 12, minutes |-> 0, seconds |-> 0]

\* const secondsPassed = now.getHours() * 3600 + now.getMinutes() * 60 + now.getSeconds()
SecondsPassed(t) == t.hours * 3600 + t.minutes * 60 + t.seconds

\* currentDotRadius: half the dot size, times 1.5 when hovered, times 1.3 when
\* the dot is the selected one and transform.k > 1.1
CurrentDotRadius(i, hovered, grown, dotSize) ==
    LET base == (YU * dotSize) \div 2
        hov == IF i = hovered THEN (base * 3) \div 2 ELSE base
    IN  IF i = grown THEN (hov * 13) \div 10 ELSE hov

\* isSelected && transform.k > 1.1: the dot drawn grown, or Null
Grown(zoomed, transform) ==
    IF IsNumber(zoomed) /\ 10 * transform.k > 11 * KU THEN zoomed ELSE Null

\* a gradient laid over the radius of a dot at rest
TodayGradientAtRest(radius, dotSize, clock) ==
    [from |-> (YU * dotSize) \div 2, to |-> -((YU * dotSize) \div 2),
     stops |-> <<[offset |-> 0, color |-> TodayColor],
                 [offset |-> SecondsPassed(clock), color |-> TodayColor],
                 [offset |-> SecondsPassed(clock), color |-> DarkGreen],
                 [offset |-> SecondsPerDay, color |-> DarkGreen]>>]

\* Gradient for 'Today' dot: createLinearGradient(0, cy + currentDotRadius, 0,
\* cy - currentDotRadius) and its four stops; from and to are relative to cy
TodayGradient(radius, dotSize, clock) ==
    [from |-> radius, to |-> -radius,
     stops |-> <<[offset |-> 0, color |-> TodayColor],
                 [offset |-> SecondsPassed(clock), color |-> TodayColor],
                 [offset |-> SecondsPassed(clock), color |-> DarkGreen],
                 [offset |-> SecondsPerDay, color |-> DarkGreen]>>]

\* the fill of a dot that has no gradient
NoGradient == [from |-> 0, to |-> 0, stops |-> <<>>]

\* results of getDotColor(i) that are no colors: null, the empty string, a
\* string that is no CSS color; Throws stands for a call that throws
ColorNull == "null"
EmptyString == ""
InvalidColor == "not-a-color"
Throws == "throw"

\* the color CalendarView's getDotColor returns for a completed bad habit
HabitColor == "#ff4444"

\* the color CalendarView's getDotColor returns for a completed good habit
HabitGoodColor == "#00ff88"

\* getDotColor when the prop is not passed
NoOverride == [supplied |-> FALSE, result |-> <<>>]

\* CalendarView's getDotColor while no habit entry is stored
AllNull == [supplied |-> TRUE, result |-> [i \in 1..totalDots |-> ColorNull]]

\* a lookup that takes null for the past color
CustomColorNullAsPast(override, i) ==
    IF override.supplied
    THEN IF override.result[i + 1] = ColorNull THEN PastColor ELSE override.result[i + 1]
    ELSE ColorNull

\* const customColor = getDotColor ? getDotColor(i) : null; i counts from 0
CustomColor(override, i) ==
    IF override.supplied THEN override.result[i + 1] ELSE ColorNull

\* if (customColor) for a string or null
TruthyColor(c) == c \notin {ColorNull, EmptyString}

\* ctx.fillStyle = v and ctx.shadowColor = v ignore a v that is no color
SetStyle(old, new) == IF new = InvalidColor THEN old ELSE new

\* the state of a 2d context after save() in draw
DefaultContext ==
    [fillStyle |-> "#000000", shadowColor |-> "rgba(0, 0, 0, 0)", shadowBlur |-> 0]

\* default coloring that leaves out the today branch
DefaultStyleNoToday(i, ctx) ==
    IF i < passedDots
    THEN [ctx EXCEPT !.fillStyle = PastColor, !.shadowBlur = 0]
    ELSE [ctx EXCEPT !.fillStyle = FutureColor, !.shadowBlur = 0]

\* 2. Default Coloring Logic: the context before the hover effects
DefaultStyle(i, ctx) ==
    IF i < passedDots
    THEN [ctx EXCEPT !.fillStyle = PastColor, !.shadowBlur = 0]
    ELSE IF i = passedDots
         THEN [ctx EXCEPT !.fillStyle = Gradient, !.shadowBlur = 0]
         ELSE [ctx EXCEPT !.fillStyle = FutureColor, !.shadowBlur = 0]

\* custom coloring that takes the default for dots not yet passed
CustomStyleUpToToday(i, customColor, ctx, dotSize) ==
    IF i > passedDots
    THEN DefaultStyle(i, ctx)
    ELSE [ctx EXCEPT !.fillStyle = SetStyle(@, customColor), !.shadowBlur = 0]

\* custom coloring that gives every custom color its glow
CustomStyleAlwaysGlow(i, customColor, ctx, dotSize) ==
    [ctx EXCEPT !.fillStyle = SetStyle(@, customColor),
                !.shadowColor = SetStyle(@, customColor),
                !.shadowBlur = dotSize]

\* 1. custom color: the context before the hover effects
CustomStyle(i, customColor, ctx, dotSize) ==
    LET filled == [ctx EXCEPT !.fillStyle = SetStyle(@, customColor), !.shadowBlur = 0]
    IN  IF customColor # PastColor /\ customColor # FutureColor
        THEN [filled EXCEPT !.shadowColor = SetStyle(@, customColor),
                            !.shadowBlur = dotSize]
        ELSE filled

\* the hover effects
HoverStyle(i, customColor, ctx, dotSize) ==
    IF i # passedDots /\ ~TruthyColor(customColor)
    THEN [ctx EXCEPT !.fillStyle = IF i < passedDots THEN HoverPastColor
                                                     ELSE HoverFutureColor,
                     !.shadowBlur = 0]
    ELSE [ctx EXCEPT !.shadowBlur = 3 * dotSize]

\* the glow drawn only while no getDotColor is passed
TodayGlowWithoutProp(i, customColor) == customColor = ColorNull /\ ~getDotColor.supplied /\ i = passedDots

\* DRAW GLOW: the opaque circle with the today shadow behind the today dot,
\* drawn in the default branch
TodayGlow(i, customColor) == ~TruthyColor(customColor) /\ i = passedDots

\* one pass of the loop for dot i: the paint of the dot and the context the
\* next dot starts with
PaintCell(i, customColor, ctx, hovered, grown, dotSize) ==
    LET radius == CurrentDotRadius(i, hovered, grown, dotSize)
        styled == IF TruthyColor(customColor)
                  THEN CustomStyle(i, customColor, ctx, dotSize)
                  ELSE DefaultStyle(i, ctx)
        atFill == IF i = hovered
                  THEN HoverStyle(i, customColor, styled, dotSize)
                  ELSE styled
        glows == atFill.shadowBlur > 0 /\ atFill.shadowColor # DefaultContext.shadowColor
    IN  [paint |->
            [fill |-> IF atFill.fillStyle = Gradient THEN "gradient" ELSE "solid",
             color |-> atFill.fillStyle,
             glow |-> glows,
             glowColor |-> IF glows THEN atFill.shadowColor ELSE "none",
             blur |-> IF glows THEN atFill.shadowBlur ELSE 0,
             todayGlow |-> TodayGlow(i, customColor),
             hovered |-> i = hovered,
             radius |-> radius,
             clock |-> now,
             gradient |-> IF atFill.fillStyle = Gradient
                          THEN TodayGradient(radius, dotSize, now)
                          ELSE NoGradient],
         ctx |-> [atFill EXCEPT !.shadowBlur = 0]]

\* the loop from dot i on, cells being the dots painted so far; a getDotColor
\* that throws ends it
RECURSIVE DrawCells(_, _, _, _, _, _, _)
DrawCells(override, i, ctx, hovered, grown, dotSize, cells) ==
    IF i >= totalDots
    THEN [cells |-> cells, aborted |-> FALSE]
    ELSE IF CustomColor(override, i) = Throws
         THEN [cells |-> cells, aborted |-> TRUE]
         ELSE LET this == PaintCell(i, CustomColor(override, i), ctx, hovered, grown, dotSize)
              IN  DrawCells(override, i + 1, this.ctx, hovered, grown, dotSize,
                            Append(cells, this.paint))

\* what one draw paints when getDotColor is override
DrawFrameWith(override, hovered, grown) ==
    DrawCells(override, 0, DefaultContext, hovered, grown, ResolvedDotSize, <<>>)

\* what one draw paints
DrawFrame(hovered, grown) == DrawFrameWith(getDotColor, hovered, grown)

-----------------------------------------------------------------------------
\* Hit testing (handleCanvasClick, handleMouseMove)

\* the index with Math.round in place of Math.floor
HitIndexRounded(x, y, m) ==
    LET col == RoundDiv(x - 2 * m.padding, 2 * m.effectiveDotWidth)
        row == RoundDiv(y - 2 * m.padding, 2 * m.effectiveDotWidth)
    IN  row * m.cols + col

\* x and y are in half pixels, relative to the canvas rect:
\* 2 * (e.clientX - rect.left), 2 * (e.clientY - rect.top)
HitIndexAnyColumn(x, y, m) ==
    LET gx == x - 2 * m.padding
        gy == y - 2 * m.padding
        col == FloorDiv(gx, 2 * m.effectiveDotWidth)
        row == FloorDiv(gy, 2 * m.effectiveDotWidth)
    IN  row * m.cols + col

\* the index the pointer resolves to, or Null
HitTest(x, y, m, total) ==
    LET gx == x - 2 * m.padding
        gy == y - 2 * m.padding
    IN  IF gx < 0 \/ gy < 0 THEN Null
        ELSE LET index == HitIndexAnyColumn(x, y, m)
             IN  IF index >= 0 /\ index < total THEN index ELSE Null

\* a guard that lets every event through
FocusGuardOpen(z) == FALSE

\* `zoomedIndex !== null`: true for a number and for undefined
FocusGuard(z) == z # Null

\* the rect the handlers measure is the canvas as draw sized it
RectWidth == CanvasClientWidth(canvasStyleWidth)

\* the click test that also rejects the gap: relX <= dotSize && relY <= dotSize
ClickTargetStrict(x, y) ==
    IF FocusGuard(zoomedIndex) THEN NoCall
    ELSE LET m == GetGridMetrics(RectWidth)
             hit == HitTest(x, y, m, totalDots)
             relX == (x - 2 * m.padding) % (2 * m.effectiveDotWidth)
             relY == (y - 2 * m.padding) % (2 * m.effectiveDotWidth)
         IN  IF hit = Null \/ relX > 2 * m.dotSize \/ relY > 2 * m.dotSize
             THEN NoCall ELSE hit

\* what handleCanvasClick passes to onDotClick (NoCall: it returns early)
ClickTarget(x, y) ==
    IF FocusGuard(zoomedIndex) THEN NoCall
    ELSE LET hit == HitTest(x, y, GetGridMetrics(RectWidth), totalDots)
         IN  IF hit = Null THEN NoCall ELSE hit

\* a hover test that takes the dot only, not the gap beside it
HoverTargetStrict(x, y) ==
    IF ClickTargetStrict(x, y) = NoCall THEN Null ELSE ClickTargetStrict(x, y)

\* hoveredIndex after handleMouseMove
HoverTarget(x, y) ==
    IF FocusGuard(zoomedIndex) THEN Null
    ELSE HitTest(x, y, GetGridMetrics(RectWidth), totalDots)

\* Pointer positions tried: one in the padding, and for each pitch period
\* tried the dot's centre and the last half pixel of the period (in the gap,
\* when there is one)
Offsets(m) == {m.dotSize, 2 * m.effectiveDotWidth - 1}

PointerCoords(m, periods) ==
    {2 * m.padding + 2 * m.effectiveDotWidth * c + o : c \in periods, o \in Offsets(m)}

\* the last period tried lies to the right of the last column
PointerXs ==
    LET m == GetGridMetrics(RectWidth)
    IN  {x \in {2 * m.padding - 1} \cup PointerCoords(m, {0, m.cols}) :
            x < 2 * RectWidth}

PointerYs ==
    LET m == GetGridMetrics(RectWidth)
    IN  PointerCoords(m, {0})
        \cup {2 * m.padding + 2 * m.effectiveDotWidth * MaxPeriod + m.dotSize}

-----------------------------------------------------------------------------
\* The animation loop (animate)

Identity == [x |-> 0, y |-> 0, k |-> KU]

\* Math.pow(1 - speed, n) in 1/FU, n = delta / 16
RECURSIVE PowOneMinusSpeed(_)
PowOneMinusSpeed(n) ==
    IF n <= 0 THEN FU
    ELSE FloorDiv(PowOneMinusSpeed(n - 1) * (100 - SpeedPercent), 100)

\* a factor that grows linearly with the elapsed time: speed * delta / 16
FactorLinear(delta) == (SpeedPercent * FU * delta) \div 100

\* const factor = 1 - Math.pow(1 - speed, delta / 16)
Factor(delta) == FU - PowOneMinusSpeed(delta)

\* curr + (target - curr) * factor
Lerp(curr, target, factor) == curr + RoundDiv((target - curr) * factor, FU)

\* a target that centres the corner of the dot's square, not the dot
TargetTransformCorner(zoomed, canvasLive, styleWidth) ==
    IF ~IsNumber(zoomed) THEN [x |-> 0, y |-> 0, k |-> KU]
    ELSE
      LET availableWidth == IF canvasLive THEN CanvasClientWidth(styleWidth)
                                          ELSE innerWidth
          m == GetGridMetrics(availableWidth)
          col == JsMod(zoomed, m.cols)
          row == FloorDiv(zoomed, m.cols)
          dotX2 == 2 * col * m.effectiveDotWidth + 2 * m.padding
          dotY2 == 2 * row * m.effectiveDotWidth + 2 * m.padding
          targetK == FloorDiv(Min(availableWidth, innerHeight) * KU,
                              m.effectiveDotWidth * ZoomDots)
          centerX2 == innerWidth - 2 * (IF canvasLive THEN rectLeft ELSE 0)
          centerY2 == innerHeight - 2 * (IF canvasLive THEN rectTop ELSE 0)
      IN  [x |-> RoundDiv(centerX2 * TU, 2) - RoundDiv(dotX2 * targetK * TU, 2 * KU),
           y |-> RoundDiv(centerY2 * TU, 2) - RoundDiv(dotY2 * targetK * TU, 2 * KU),
           k |-> targetK]

\* The target transform of a tick whose effect closed over zoomed.  canvas is
\* canvasRef.current: null once the grid is unmounted
TargetTransform(zoomed, canvasLive, styleWidth) ==
    IF ~IsNumber(zoomed) THEN Identity
    ELSE
      LET availableWidth == IF canvasLive THEN CanvasClientWidth(styleWidth)
                                          ELSE innerWidth
          m == GetGridMetrics(availableWidth)
          col == JsMod(zoomed, m.cols)
          row == FloorDiv(zoomed, m.cols)
          \* dot centre plus padding, in half pixels
          dotX2 == 2 * col * m.effectiveDotWidth + m.dotSize + 2 * m.padding
          dotY2 == 2 * row * m.effectiveDotWidth + m.dotSize + 2 * m.padding
          targetK == FloorDiv(Min(availableWidth, innerHeight) * KU,
                              m.effectiveDotWidth * ZoomDots)
          \* screen centre relative to the canvas, in half pixels
          centerX2 == innerWidth - 2 * (IF canvasLive THEN rectLeft ELSE 0)
          centerY2 == innerHeight - 2 * (IF canvasLive THEN rectTop ELSE 0)
      IN  [x |-> RoundDiv(centerX2 * TU, 2) - RoundDiv(dotX2 * targetK * TU, 2 * KU),
           y |-> RoundDiv(centerY2 * TU, 2) - RoundDiv(dotY2 * targetK * TU, 2 * KU),
           k |-> targetK]

\* Math.abs(curr.k - targetK) < 0.001 && Math.abs(curr.x - targetX) < 0.5 && ...
CloseEnough(curr, target) ==
    /\ Abs(curr.k - target.k) * ScaleEpsilonInv < KU
    /\ Abs(curr.x - target.x) * TranslateEpsilonInv < TU
    /\ Abs(curr.y - target.y) * TranslateEpsilonInv < TU

\* animate without the snap to the target
AdvanceNoSnap(curr, target, factor) ==
    [x |-> Lerp(curr.x, target.x, factor),
     y |-> Lerp(curr.y, target.y, factor),
     k |-> Lerp(curr.k, target.k, factor)]

\* currentTransform.current after one run of animate
Advance(curr, target, factor) ==
    IF CloseEnough(curr, target) THEN target
    ELSE [x |-> Lerp(curr.x, target.x, factor),
          y |-> Lerp(curr.y, target.y, factor),
          k |-> Lerp(curr.k, target.k, factor)]

\* requestAnimationFrame ids: the browser never reuses one; the model reuses an
\* id once no request and no ref holds it
NewFrameId(pending) ==
    CHOOSE n \in 1..(Cardinality(pending) + 1) : \A f \in pending : f.id # n

RequestFrame(pending, zoomed) ==
    pending \cup {[id |-> NewFrameId(pending), zoomed |-> zoomed]}

\* a cleanup that cancels nothing
CancelFrameNone(pending, ref) == pending

\* the cleanup of the animation effect, applied to the set of requests
CancelFrame(pending, ref) ==
    IF ref # 0 THEN {f \in pending : f.id # ref} ELSE pending

\* the interval after the cleanup of its effect: clearInterval(interval)
IntervalAfterCleanup == FALSE

-----------------------------------------------------------------------------
\* Rendering: what a commit of the grid runs

obsVars == <<ranUnmounted, probe>>

\* draw(transform) of a render with the focus zoomed: it sizes the canvas and
\* paints the dots.  With canvasRef.current null it returns at once
Draw(dimWidth, hovered, zoomed, transform) ==
    IF mounted
    THEN LET c == ResizeCanvas(Canvas, dimWidth)
         IN  /\ canvasStyleWidth' = c.styleWidth
             /\ canvasPixelWidth' = c.width
             /\ canvasPixelHeight' = c.height
             /\ frame' = DrawFrame(hovered, Grown(zoomed, transform))
    ELSE UNCHANGED canvasVars

\* a render whose interval effect clears the interval and sets none
RerunEffectsNoInterval(zoomed, dimWidth, hovered) ==
    LET cleaned == CancelFrame(rafPending, animationFrameRef)
    IN  /\ rafPending' = RequestFrame(cleaned, zoomed)
        /\ animationFrameRef' = NewFrameId(cleaned)
        /\ Draw(dimWidth, hovered, zoomed, currentTransform)
        /\ intervalActive' = FALSE
        /\ UNCHANGED <<currentTransform, sinceLastRender>>

\* A render in which draw or zoomedIndex changed: the animation effect is
\* cleaned up and run again, the draw effect draws, the interval is set anew
RerunEffects(zoomed, dimWidth, hovered) ==
    LET cleaned == CancelFrame(rafPending, animationFrameRef)
    IN  /\ rafPending' = RequestFrame(cleaned, zoomed)
        /\ animationFrameRef' = NewFrameId(cleaned)
        /\ Draw(dimWidth, hovered, zoomed, currentTransform)
        /\ intervalActive' = TRUE
        /\ UNCHANGED <<currentTransform, sinceLastRender>>

\* The cleanups of an unmount
CleanupEffects ==
    /\ rafPending' = CancelFrame(rafPending, animationFrameRef)
    /\ animationFrameRef' = 0
    /\ intervalActive' = IntervalAfterCleanup

\* A new grid instance is mounted (the old one, if any, is cleaned up): fresh
\* state and refs, then the effects of the mount and of the render that
\* setDimensions causes
MountGridWith(zoomed, override) ==
    LET cleaned == CancelFrame(rafPending, animationFrameRef)
    IN  /\ mounted' = TRUE
        /\ hoveredIndex' = Null
        /\ dimensionsWidth' = containerWidth
        /\ canvasStyleWidth' = CanvasAfterMount(containerWidth).styleWidth
        /\ canvasPixelWidth' = CanvasAfterMount(containerWidth).width
        /\ canvasPixelHeight' = CanvasAfterMount(containerWidth).height
        /\ frame' = DrawFrameWith(override, Null, Null)
        /\ currentTransform' = Identity
        /\ sinceLastRender' = Null
        /\ rafPending' = RequestFrame(cleaned, zoomed)
        /\ animationFrameRef' = NewFrameId(cleaned)
        /\ intervalActive' = TRUE

\* ... with the getDotColor the grid had
MountGrid(zoomed) == MountGridWith(zoomed, getDotColor)

\* the animation has not reached the target of the current focus
InFlight ==
    currentTransform # TargetTransform(zoomedIndex, mounted, canvasStyleWidth)

\* a focus change counts against MaxRetargets when it redirects an animation
CountRetarget ==
    retargets' = IF InFlight THEN retargets + 1 ELSE retargets

MayRetarget == InFlight => retargets < MaxRetargets

-----------------------------------------------------------------------------
\* Storage module: calendars and habit entries in localStorage.  An item holds
\* what JSON.parse gives back for what JSON.stringify was given: the calendar
\* list as a sequence of records, the data of a calendar as the set of the date
\* keys stored with the value true (toggleHabit stores no other value)

\* the ids createCalendar can make within the clock's range
CalId(t) == "cal-" \o ToString(t)

CalendarIds == {"main"} \cup {CalId(t) : t \in 0..MaxMillis}

\* localStorage.getItem gives null: no list, no data
NoList == [stored |-> FALSE, value |-> <<>>]

NoData == [stored |-> FALSE, value |-> {}]

Item(v) == [stored |-> TRUE, value |-> v]

EmptyStorage == [calendars |-> NoList, data |-> [id \in CalendarIds |-> NoData]]

\* a Date: the local calendar day and the time within it
DateOf(day, ms) == [day |-> day, ms |-> ms]

\* getDateKey(date): year, month and day of the local date; the time is dropped
GetDateKey(date) == date.day

\* date = new Date(startDate); date.setDate(startDate.getDate() + index)
DateOfDot(index) == DateOf(index, 0)

MainCalendar(t) ==
    [id |-> "main", name |-> "Life Calendar", type |-> "main", created |-> t]

SaveCalendars(store, calendars) == [store EXCEPT !.calendars = Item(calendars)]

\* getCalendars() at time t: [store, result]
GetCalendars(store, t) ==
    LET calendars == IF store.calendars.stored THEN store.calendars.value ELSE <<>>
    IN  IF \E i \in DOMAIN calendars : calendars[i].id = "main"
        THEN [store |-> store, result |-> calendars]
        ELSE [store |-> SaveCalendars(store, <<MainCalendar(t)>> \o calendars),
              result |-> <<MainCalendar(t)>> \o calendars]

\* createCalendar(name, type) at time t: [store, result]
CreateCalendar(store, name, type, t) ==
    LET got == GetCalendars(store, t)
        newCalendar == [id |-> CalId(t), name |-> name, type |-> type, created |-> t]
    IN  [store |-> SaveCalendars(got.store, Append(got.result, newCalendar)),
         result |-> newCalendar]

\* a deleteCalendar without the guard on 'main'
DeleteCalendarAny(store, id, t) ==
    LET got == GetCalendars(store, t)
        kept == SelectSeq(got.result, LAMBDA c : c.id # id)
    IN  [SaveCalendars(got.store, kept) EXCEPT !.data[id] = NoData]

\* deleteCalendar(calendarId) at time t: the store afterwards
DeleteCalendar(store, id, t) ==
    IF id = "main" THEN store
    ELSE LET got == GetCalendars(store, t)
             kept == SelectSeq(got.result, LAMBDA c : c.id # id)
         IN  [SaveCalendars(got.store, kept) EXCEPT !.data[id] = NoData]

\* getCalendarData(calendarId): {} when nothing is stored
GetCalendarData(store, id) ==
    IF store.data[id].stored THEN store.data[id].value ELSE {}

SaveCalendarData(store, id, data) == [store EXCEPT !.data[id] = Item(data)]

\* a toggleHabit that only ever sets the entry
ToggleHabitSetOnly(store, id, date) ==
    LET after == GetCalendarData(store, id) \cup {GetDateKey(date)}
    IN  [store |-> SaveCalendarData(store, id, after), result |-> TRUE]

\* toggleHabit(calendarId, date): [store, result]
ToggleHabit(store, id, date) ==
    LET data == GetCalendarData(store, id)
        dateKey == GetDateKey(date)
        after == IF dateKey \in data THEN data \ {dateKey} ELSE data \cup {dateKey}
    IN  [store |-> SaveCalendarData(store, id, after), result |-> dateKey \in after]

\* getHabitStatus(calendarId, date)
GetHabitStatus(store, id, date) == GetDateKey(date) \in GetCalendarData(store, id)

\* getAllHabitEntries(calendarId)
GetAllHabitEntries(store, id) == GetCalendarData(store, id)

\* CalendarView's getDotColor on a habit calendar, over the store
CalendarGetDotColor(store) ==
    [supplied |-> TRUE,
     result |-> [i \in 1..totalDots |->
                   IF i - 1 > passedDots THEN ColorNull
                   ELSE IF GetHabitStatus(store, calendarId, DateOfDot(i - 1))
                        THEN IF calendarType = "habit_good"
                             THEN HabitGoodColor ELSE HabitColor
                        ELSE ColorNull]]

\* the store of a browser in which the dashboard made one habit calendar at
\* time 0
HabitStorage(type) ==
    CreateCalendar(EmptyStorage, "Habit", type, 0).store

\* no call of the storage module yet
NoReturn == [op |-> "none", id |-> "", date |-> DateOf(0, 0), value |-> FALSE]

-----------------------------------------------------------------------------
\* Pointer events

\* the step handled no pointer event
NoPointer ==
    [kind |-> "none", x |-> 0, y |-> 0, focus |-> Null, atRest |-> TRUE,
     fired |-> NoCall]

PointerEvent(kind, x, y, fired) ==
    [kind |-> kind, x |-> x, y |-> y, focus |-> zoomedIndex,
     atRest |-> (currentTransform = Identity), fired |-> fired]

\* a test that takes no dot for a future one
IsFutureNever(index) == FALSE

\* const isFuture = index > passedDots
IsFuture(index) == index > passedDots

\* the view's handleDotClick, called with index
HostDotClick(index) ==
    IF host = "CalendarView" /\ calendarType \in {"habit_good", "habit_bad"}
    THEN \* toggleHabit and setRefreshTrigger: the grid's key changes
         IF ~IsFuture(index)
         THEN LET toggled == ToggleHabit(localStorage, calendarId, DateOfDot(index))
              IN  /\ localStorage' = toggled.store
                  /\ returned' = [op |-> "toggleHabit", id |-> calendarId,
                                  date |-> DateOfDot(index), value |-> toggled.result]
                  /\ getDotColor' = CalendarGetDotColor(toggled.store)
                  /\ MountGridWith(zoomedIndex, CalendarGetDotColor(toggled.store))
                  /\ UNCHANGED <<dateNow, zoomedIndex, focusedDate, retargets>>
         ELSE UNCHANGED <<animVars, canvasVars, zoomedIndex, focusedDate,
                          mounted, dimensionsWidth, hoveredIndex, intervalActive,
                          retargets, getDotColor, storageVars>>
    ELSE /\ MayRetarget
         /\ zoomedIndex' = index
         /\ focusedDate' = index
         /\ CountRetarget
         /\ RerunEffects(index, dimensionsWidth, hoveredIndex)
         /\ UNCHANGED <<mounted, dimensionsWidth, hoveredIndex, getDotColor,
                        storageVars>>

Click(x, y) ==
    /\ mounted
    /\ lastPointer' = PointerEvent("click", x, y, ClickTarget(x, y))
    /\ IF ClickTarget(x, y) = NoCall
       THEN UNCHANGED <<animVars, canvasVars, zoomedIndex, focusedDate, mounted,
                        dimensionsWidth, hoveredIndex, intervalActive, retargets,
                        getDotColor, storageVars>>
       ELSE HostDotClick(ClickTarget(x, y))
    /\ UNCHANGED <<gridProps, windowVars, containerWidth, ranUnmounted, probe>>

\* setHoveredIndex(h): a render only when the value changes
SetHovered(h) ==
    /\ hoveredIndex' = h
    /\ IF h # hoveredIndex
       THEN RerunEffects(zoomedIndex, dimensionsWidth, h)
       ELSE UNCHANGED <<animVars, canvasVars, intervalActive>>

MouseMove(x, y) ==
    /\ mounted
    /\ lastPointer' = PointerEvent("move", x, y, NoCall)
    /\ SetHovered(HoverTarget(x, y))
    /\ UNCHANGED <<propVars, windowVars, containerWidth, zoomedIndex, focusedDate,
                   mounted, dimensionsWidth, ranUnmounted, retargets, probe>>

MouseLeave ==
    /\ mounted
    /\ lastPointer' = PointerEvent("leave", 0, 0, NoCall)
    /\ SetHovered(Null)
    /\ UNCHANGED <<propVars, windowVars, containerWidth, zoomedIndex, focusedDate,
                   mounted, dimensionsWidth, ranUnmounted, retargets, probe>>

\* the window is resized: updateDimensions sets a new dimensions object
Resize(width) ==
    /\ lastPointer' = NoPointer
    /\ mounted
    /\ MayRetarget
    /\ CountRetarget
    /\ containerWidth' = width
    /\ dimensionsWidth' = width
    /\ RerunEffects(zoomedIndex, width, hoveredIndex)
    /\ UNCHANGED <<propVars, windowVars, zoomedIndex, focusedDate, mounted,
                   hoveredIndex, obsVars>>

-----------------------------------------------------------------------------
\* The views' other handlers

\* DayView's onBack
Back ==
    /\ lastPointer' = NoPointer
    /\ mounted
    /\ focusedDate # Null
    /\ focusedDate' = Null
    /\ zoomedIndex' = Null
    /\ IF host = "CalendarView"
       THEN \* setRefreshTrigger: the grid's key changes
            /\ MountGrid(Null)
            /\ UNCHANGED retargets
       ELSE /\ MayRetarget
            /\ CountRetarget
            /\ RerunEffects(Null, dimensionsWidth, hoveredIndex)
            /\ UNCHANGED <<mounted, dimensionsWidth, hoveredIndex>>
    /\ UNCHANGED <<propVars, windowVars, containerWidth, obsVars>>

\* CalendarView's handleNavigate, called with the date of newIndex
Navigate(newIndex) ==
    /\ lastPointer' = NoPointer
    /\ mounted
    /\ host = "CalendarView"
    /\ focusedDate # Null
    /\ newIndex \in {zoomedIndex - 1, zoomedIndex + 1}
    /\ MayRetarget
    /\ CountRetarget
    /\ zoomedIndex' = newIndex
    /\ focusedDate' = newIndex
    /\ RerunEffects(newIndex, dimensionsWidth, hoveredIndex)
    /\ UNCHANGED <<propVars, windowVars, containerWidth, mounted, dimensionsWidth,
                   hoveredIndex, obsVars>>

\* CalendarView renders with a new getDotColor (calendarConfig or allHabitData
\* was set): draw changes
ColorCallbackChange ==
    /\ lastPointer' = NoPointer
    /\ mounted
    /\ host = "CalendarView"
    /\ RerunEffects(zoomedIndex, dimensionsWidth, hoveredIndex)
    /\ UNCHANGED <<propVars, windowVars, containerWidth, zoomedIndex, focusedDate,
                   mounted, dimensionsWidth, hoveredIndex, obsVars, retargets>>

\* The top-level App leaves the calendar view for the dashboard: the button is
\* shown while nothing is zoomed
LeaveCalendar ==
    /\ lastPointer' = NoPointer
    /\ mounted
    /\ host = "CalendarView"
    /\ zoomedIndex = Null
    /\ mounted' = FALSE
    /\ CleanupEffects
    /\ UNCHANGED <<propVars, windowVars, containerWidth, canvasVars, zoomedIndex,
                   focusedDate, dimensionsWidth, hoveredIndex, currentTransform,
                   sinceLastRender, obsVars, retargets>>

\* ... and opens a calendar again: a new CalendarView and a new grid
OpenCalendar ==
    /\ lastPointer' = NoPointer
    /\ ~mounted
    /\ zoomedIndex' = Null
    /\ focusedDate' = Null
    /\ MountGrid(Null)
    /\ UNCHANGED <<propVars, windowVars, containerWidth, obsVars, retargets>>

-----------------------------------------------------------------------------
\* Callbacks of the platform

\* a requested animation frame runs animate
Animate(f, step) ==
    /\ lastPointer' = NoPointer
    /\ f \in rafPending
    /\ LET delta == IF sinceLastRender = Null THEN 0 ELSE sinceLastRender + step
           target == TargetTransform(f.zoomed, mounted, canvasStyleWidth)
           rest == rafPending \ {f}
       IN  /\ currentTransform' = Advance(currentTransform, target, Factor(delta))
           /\ IF CloseEnough(currentTransform, target)
              THEN /\ animationFrameRef' = 0
                   /\ rafPending' = rest
              ELSE /\ animationFrameRef' = NewFrameId(rest)
                   /\ rafPending' = RequestFrame(rest, f.zoomed)
           /\ IF currentTransform = target
              THEN UNCHANGED canvasVars
              ELSE Draw(dimensionsWidth, hoveredIndex, f.zoomed, currentTransform')
    /\ sinceLastRender' = 0
    /\ ranUnmounted' = (ranUnmounted \/ ~mounted)
    /\ UNCHANGED <<propVars, windowVars, containerWidth, zoomedIndex, focusedDate,
                   mounted, dimensionsWidth, hoveredIndex, intervalActive, retargets, probe>>

\* a tick of the animated specification: the frames come FrameStep apart
Tick(f) == Animate(f, FrameStep)

\* the 60 s interval fires: draw(currentTransform.current)
IntervalFire ==
    /\ lastPointer' = NoPointer
    /\ intervalActive
    /\ Draw(dimensionsWidth, hoveredIndex, zoomedIndex, currentTransform)
    /\ ranUnmounted' = (ranUnmounted \/ ~mounted)
    /\ UNCHANGED <<propVars, windowVars, animVars, containerWidth, zoomedIndex,
                   focusedDate, mounted, dimensionsWidth, hoveredIndex,
                   intervalActive, retargets, probe>>

\* frames pass while no tick is requested
TimePasses ==
    /\ lastPointer' = NoPointer
    /\ rafPending = {}
    /\ sinceLastRender # Null
    /\ sinceLastRender < MaxIdle
    /\ sinceLastRender' = MaxIdle
    /\ UNCHANGED <<propVars, windowVars, containerWidth, canvasVars, zoomedIndex,
                   focusedDate, mounted, dimensionsWidth, hoveredIndex,
                   currentTransform, animationFrameRef, rafPending, intervalActive,
                   obsVars, retargets>>

-----------------------------------------------------------------------------
\* getGridMetrics applied to a width given directly
ApplyGetGridMetrics(width) ==
    /\ lastPointer' = NoPointer
    /\ probe' = [width |-> width, cols |-> GetGridMetrics(width).cols]
    /\ UNCHANGED <<propVars, windowVars, animVars, containerWidth, canvasVars,
                   zoomedIndex, focusedDate, mounted, dimensionsWidth, hoveredIndex,
                   intervalActive, ranUnmounted, retargets>>

-----------------------------------------------------------------------------
\* Initial states: the grid has just been mounted by its view

InitGridWith(zoomed) ==
    /\ zoomedIndex = zoomed
    /\ focusedDate = Null
    /\ mounted = TRUE
    /\ hoveredIndex = Null
    /\ dimensionsWidth = containerWidth
    /\ canvasStyleWidth = CanvasAfterMount(containerWidth).styleWidth
    /\ canvasPixelWidth = CanvasAfterMount(containerWidth).width
    /\ canvasPixelHeight = CanvasAfterMount(containerWidth).height
    /\ frame = DrawFrame(Null, Grown(zoomedIndex, currentTransform))
    /\ currentTransform = Identity
    /\ sinceLastRender = Null
    /\ rafPending = RequestFrame({}, zoomed)
    /\ animationFrameRef = NewFrameId({})
    /\ intervalActive = TRUE
    /\ lastPointer = NoPointer
    /\ ranUnmounted = FALSE
    /\ retargets = 0
    /\ probe = [width |-> Null, cols |-> Null]

\* ... by a view whose zoomedIndex state starts at null
InitGrid == InitGridWith(Null)

\* <<view, calendar type, customDotSize, customGap>>: App in its LIFE and WEEK
\* modes, CalendarView on the main and on a habit calendar
Hosts ==
    {<<"App", "main", AppDotSize, AppDotGap>>,
     <<"App", "main", WeekDotSize, WeekDotGap>>,
     <<"CalendarView", "main", CalendarDotSize, CalendarDotGap>>,
     <<"CalendarView", "habit_good", CalendarDotSize, CalendarDotGap>>}

\* The views as the repository renders them
Init ==
    /\ \E h \in Hosts : /\ host = h[1]
                        /\ calendarType = h[2]
                        /\ customDotSize = h[3]
                        /\ customGap = h[4]
    /\ totalDots = MainDots
    /\ passedDots = MainDots \div 2
    /\ calendarId = IF calendarType = "main" THEN "main" ELSE CalId(0)
    /\ localStorage = IF host = "App" THEN EmptyStorage ELSE HabitStorage("habit_good")
    /\ dateNow = 0
    /\ returned = NoReturn
    /\ getDotColor = IF host = "App" THEN NoOverride ELSE AllNull
    /\ cssDotSize = NaN
    /\ cssDotGap = NaN
    /\ innerWidth = ViewportWidth
    /\ innerHeight = ViewportHeight
    /\ rectLeft = 0
    /\ rectTop = RectTopSample
    /\ devicePixelRatio = 2
    /\ now = Noon
    /\ containerWidth = ViewportWidth
    /\ InitGrid

\* the pointer position of the animated specification: the centre of the
\* first dot as drawn without zoom
MainPointerX == 2 * PADDING + ResolvedDotSize

MainPointerY == 2 * PADDING + ResolvedDotSize

Next ==
    \/ Click(MainPointerX, MainPointerY)
    \/ MouseMove(MainPointerX, MainPointerY)
    \/ MouseLeave
    \/ \E w \in {ViewportWidth - WidthStep, ViewportWidth} : Resize(w)
    \/ Back
    \/ \E i \in (-1)..totalDots : Navigate(i)
    \/ ColorCallbackChange
    \/ LeaveCalendar
    \/ OpenCalendar
    \/ \E f \in rafPending : Tick(f)
    \/ IntervalFire
    \/ TimePasses

Spec == Init /\ [][Next]_vars

-----------------------------------------------------------------------------
\* Hit testing over sizes, gaps and widths

\* <<customDotSize, --dot-size>> and <<customGap, --dot-gap>>
SizeProps == {<<Undef, NaN>>, <<Undef, 2>>, <<0, 1>>, <<MaxDotSize, NaN>>}

GapProps == {<<Undef, NaN>>, <<0, 1>>, <<MaxGap, NaN>>}

HitWidths == {0, 2 * PADDING + 1, 2 * PADDING + 4 * MaxDotSize}

InitHit ==
    /\ host = "App"
    /\ calendarType = "main"
    /\ totalDots = MaxDots
    /\ calendarId = "main"
    /\ localStorage = EmptyStorage
    /\ dateNow = 0
    /\ returned = NoReturn
    /\ passedDots = totalDots \div 2
    /\ \E s \in SizeProps : customDotSize = s[1] /\ cssDotSize = s[2]
    /\ \E g \in GapProps : customGap = g[1] /\ cssDotGap = g[2]
    /\ getDotColor = NoOverride
    /\ innerWidth = ViewportWidth
    /\ innerHeight = ViewportHeight
    /\ rectLeft = 0
    /\ rectTop = RectTopSample
    /\ devicePixelRatio = 2
    /\ now = Noon
    /\ containerWidth \in HitWidths
    /\ InitGrid

NextHit ==
    \/ \E x \in PointerXs, y \in PointerYs : Click(x, y)
    \/ \E x \in PointerXs, y \in PointerYs : MouseMove(x, y)
    \/ MouseLeave
    \/ \E w \in HitWidths : Resize(w)

SpecHit == InitHit /\ [][NextHit]_vars

\* getGridMetrics as a function of the width alone
NextMetrics == \E w \in (-MaxProbeWidth)..MaxProbeWidth : ApplyGetGridMetrics(w)

InitMetrics == InitHit /\ containerWidth = 0

SpecMetrics == InitMetrics /\ [][NextMetrics]_vars

-----------------------------------------------------------------------------
\* One animation towards a fixed target, from transforms an interrupted
\* animation can leave behind, with ticks 1..MaxFrameGap frames apart

\* the transform the animation of the current focus heads for
TargetNow == TargetTransform(zoomedIndex, mounted, canvasStyleWidth)

\* where an animation can stand when the focus last changed
StartTransforms ==
    {Identity}
    \cup {TargetTransform(z, TRUE, ViewportWidth) : z \in 0..(MainDots - 1)}
    \cup {[x |-> -(StartOffset * TU), y |-> StartOffset * TU, k |-> 2 * KU]}

InitAnim ==
    /\ host = "CalendarView"
    /\ calendarType = "main"
    /\ totalDots = MainDots
    /\ calendarId = "main"
    /\ localStorage = GetCalendars(EmptyStorage, 0).store
    /\ dateNow = 0
    /\ returned = NoReturn
    /\ passedDots = MainDots \div 2
    /\ customDotSize = CalendarDotSize
    /\ customGap = CalendarDotGap
    /\ getDotColor = AllNull
    /\ cssDotSize = NaN
    /\ cssDotGap = NaN
    /\ innerWidth = ViewportWidth
    /\ innerHeight = ViewportHeight
    /\ rectLeft = 0
    /\ rectTop = RectTopSample
    /\ devicePixelRatio = 2
    /\ now = Noon
    /\ containerWidth = ViewportWidth
    /\ zoomedIndex \in {Null} \cup (0..(MainDots - 1))
    /\ focusedDate = zoomedIndex
    /\ mounted = TRUE
    /\ hoveredIndex = Null
    /\ dimensionsWidth = containerWidth
    /\ canvasStyleWidth = CanvasAfterMount(containerWidth).styleWidth
    /\ canvasPixelWidth = CanvasAfterMount(containerWidth).width
    /\ canvasPixelHeight = CanvasAfterMount(containerWidth).height
    /\ currentTransform \in StartTransforms
    /\ frame = DrawFrame(Null, Grown(zoomedIndex, currentTransform))
    /\ sinceLastRender \in {Null, 0}
    /\ rafPending = RequestFrame({}, zoomedIndex)
    /\ animationFrameRef = NewFrameId({})
    /\ intervalActive = TRUE
    /\ lastPointer = NoPointer
    /\ ranUnmounted = FALSE
    /\ retargets = 0
    /\ probe = [width |-> Null, cols |-> Null]

NextAnim ==
    \/ \E f \in rafPending : \E step \in 1..MaxFrameGap : Animate(f, step)
    \/ ColorCallbackChange
    \/ IntervalFire
    \/ TimePasses

\* requestAnimationFrame runs every callback that stays requested
FairAnim == WF_vars(\E f \in rafPending : \E step \in 1..MaxFrameGap : Animate(f, step))

SpecAnim == InitAnim /\ [][NextAnim]_vars /\ FairAnim

-----------------------------------------------------------------------------
\* Properties

\* the metrics draw lays the dots out with
DrawMetrics == GetGridMetrics(AvailableWidth(dimensionsWidth, canvasStyleWidth))

\* the centre of dot i as draw places it without zoom, in half pixels
CellCenterX(i, m) == 2 * m.padding + 2 * (i % m.cols) * m.effectiveDotWidth + m.dotSize
CellCenterY(i, m) == 2 * m.padding + 2 * (i \div m.cols) * m.effectiveDotWidth + m.dotSize

PointerAtCenterOf(i) ==
    /\ lastPointer.x = CellCenterX(i, DrawMetrics)
    /\ lastPointer.y = CellCenterY(i, DrawMetrics)

\* the pointer of the last event lies in the pitch square of dot i
PointerInSquareOf(i) ==
    LET m == DrawMetrics
        left == 2 * m.padding + 2 * (i % m.cols) * m.effectiveDotWidth
        top == 2 * m.padding + 2 * (i \div m.cols) * m.effectiveDotWidth
    IN  /\ left <= lastPointer.x /\ lastPointer.x < left + 2 * m.effectiveDotWidth
        /\ top <= lastPointer.y /\ lastPointer.y < top + 2 * m.effectiveDotWidth

\* the pointer of the last event lies in a gap: its offset within the pitch
\* period exceeds the dot size on an axis
PointerInGap ==
    LET m == DrawMetrics
        gx == lastPointer.x - 2 * m.padding
        gy == lastPointer.y - 2 * m.padding
    IN  /\ gx >= 0 /\ gy >= 0
        /\ \/ gx % (2 * m.effectiveDotWidth) > 2 * m.dotSize
           \/ gy % (2 * m.effectiveDotWidth) > 2 * m.dotSize

-----------------------------------------------------------------------------
\* The paint of the dots over getDotColor, passedDots and the hovered dot

\* what getDotColor(i) may give: null, the empty string, a color, the past
\* color, a string that is no color, an exception
OverrideResults == {ColorNull, EmptyString, HabitColor, PastColor, InvalidColor, Throws}

InitPaint ==
    /\ host = "CalendarView"
    /\ calendarType = "main"
    /\ customDotSize = CalendarDotSize
    /\ calendarId = "main"
    /\ localStorage = GetCalendars(EmptyStorage, 0).store
    /\ dateNow = 0
    /\ returned = NoReturn
    /\ customGap = CalendarDotGap
    /\ totalDots = PaintDots
    /\ passedDots \in 0..(PaintDots + 1)
    /\ \/ getDotColor = NoOverride
       \/ \E r \in [1..PaintDots -> OverrideResults] :
             getDotColor = [supplied |-> TRUE, result |-> r]
    /\ cssDotSize = NaN
    /\ cssDotGap = NaN
    /\ innerWidth = ViewportWidth
    /\ innerHeight = ViewportHeight
    /\ rectLeft = 0
    /\ rectTop = RectTopSample
    /\ devicePixelRatio = 2
    /\ now = Noon
    /\ containerWidth = ViewportWidth
    /\ InitGrid

NextPaint ==
    \/ \E i \in 0..(totalDots - 1) :
          MouseMove(CellCenterX(i, DrawMetrics), CellCenterY(i, DrawMetrics))
    \/ MouseLeave
    \/ IntervalFire

SpecPaint == InitPaint /\ [][NextPaint]_vars

\* the paint of dot i in the last frame, i counting from 0
Painted(i) == frame.cells[i + 1]

\* dot i was painted in the last frame
IsPainted(i) == i + 1 <= Len(frame.cells)

\* getDotColor gave a CSS color for dot i
OverrideGivesColor(i) ==
    getDotColor.supplied /\ getDotColor.result[i + 1] \in {HabitColor, PastColor}

\* getDotColor always gives null
OverrideAlwaysNull ==
    getDotColor.supplied /\ \A i \in 1..totalDots : getDotColor.result[i] = ColorNull

\* getDotColor with null where it throws or gives a value that is no color
Sanitized ==
    [getDotColor EXCEPT !.result =
        [i \in DOMAIN @ |-> IF @[i] \in {InvalidColor, Throws} THEN ColorNull ELSE @[i]]]

\* C11: a dot for which getDotColor gives a color is filled with exactly that
\* color, below, at and above passedDots, hovered or not
C11_OverrideColorFills ==
    \A i \in 0..(totalDots - 1) :
        (IsPainted(i) /\ OverrideGivesColor(i))
            => /\ Painted(i).fill = "solid"
               /\ Painted(i).color = getDotColor.result[i + 1]

\* a hovered dot above passedDots in its override color
C11_Witness ==
    \E i \in 0..(totalDots - 1) :
        /\ i > passedDots
        /\ hoveredIndex = i
        /\ IsPainted(i)
        /\ OverrideGivesColor(i)
        /\ Painted(i).color = HabitColor

\* C12: without getDotColor and without hover every dot below passedDots has
\* the past color and no glow, every dot above it the future color and no
\* glow, and the dot at passedDots, if there is one, is the only gradient
C12_DefaultColoringPartitions ==
    (~getDotColor.supplied /\ hoveredIndex = Null) =>
        /\ Len(frame.cells) = totalDots
        /\ \A i \in 0..(totalDots - 1) :
              /\ i < passedDots =>
                    /\ Painted(i).fill = "solid" /\ Painted(i).color = PastColor
                    /\ ~Painted(i).glow /\ ~Painted(i).todayGlow
              /\ i > passedDots =>
                    /\ Painted(i).fill = "solid" /\ Painted(i).color = FutureColor
                    /\ ~Painted(i).glow /\ ~Painted(i).todayGlow
              /\ i = passedDots <=> Painted(i).fill = "gradient"

C12_Witness ==
    /\ ~getDotColor.supplied
    /\ hoveredIndex = Null
    /\ lastPointer.kind = "leave"
    /\ passedDots = 1
    /\ Painted(0).color = PastColor
    /\ Painted(1).fill = "gradient"
    /\ Painted(2).color = FutureColor

\* C13 as claimed: the dot at passedDots has the today glow whatever
\* getDotColor gives for it
C13_TodayAlwaysGlows ==
    (passedDots < totalDots /\ IsPainted(passedDots))
        => Painted(passedDots).todayGlow

\* C13 as amended: the dot at passedDots has the today glow when getDotColor
\* is absent or gives null for it; when getDotColor gives a color for it, it
\* has no today glow and, not hovered, glows in that color exactly if the
\* color is neither the past nor the future color
C13_TodayGlowsUnlessOverridden ==
    (passedDots < totalDots /\ IsPainted(passedDots)) =>
        /\ CustomColor(getDotColor, passedDots) = ColorNull
              => Painted(passedDots).todayGlow
        /\ OverrideGivesColor(passedDots) => ~Painted(passedDots).todayGlow
        /\ (OverrideGivesColor(passedDots) /\ hoveredIndex # passedDots) =>
              /\ Painted(passedDots).glow
                    <=> CustomColor(getDotColor, passedDots) \notin {PastColor, FutureColor}
              /\ Painted(passedDots).glow
                    => Painted(passedDots).glowColor = CustomColor(getDotColor, passedDots)

\* getDotColor is passed and gives null for the today dot, which glows
C13_Witness ==
    /\ passedDots < totalDots
    /\ IsPainted(passedDots)
    /\ getDotColor.supplied
    /\ CustomColor(getDotColor, passedDots) = ColorNull
    /\ Painted(passedDots).todayGlow

\* C14: a getDotColor that gives null for every index paints every dot, in
\* every hover state, as no getDotColor does
C14_NullOverrideIsNoOverride ==
    OverrideAlwaysNull =>
        frame = DrawFrameWith(NoOverride, hoveredIndex, Grown(zoomedIndex, currentTransform))

C14_Witness ==
    /\ OverrideAlwaysNull
    /\ hoveredIndex = passedDots
    /\ Len(frame.cells) = totalDots
    /\ Painted(passedDots).fill = "gradient"

\* C15 as claimed: where getDotColor throws or gives a value that is no
\* color the dot is painted as if it had given null, and the frame is drawn
\* to the end
C15_BadOverrideFallsBack ==
    getDotColor.supplied =>
        frame = DrawFrameWith(Sanitized, hoveredIndex, Grown(zoomedIndex, currentTransform))

-----------------------------------------------------------------------------
\* The backing store of the canvas over device pixel ratios (in halves, 0 for
\* a window that reports none) and container widths

SurfaceWidths == {ViewportWidth, ViewportWidth + 1}

InitSurface ==
    /\ host = "App"
    /\ calendarType = "main"
    /\ customDotSize = AppDotSize
    /\ calendarId = "main"
    /\ localStorage = EmptyStorage
    /\ dateNow = 0
    /\ returned = NoReturn
    /\ customGap = AppDotGap
    /\ totalDots = MainDots
    /\ passedDots = MainDots \div 2
    /\ getDotColor = NoOverride
    /\ cssDotSize = NaN
    /\ cssDotGap = NaN
    /\ innerWidth = ViewportWidth
    /\ innerHeight = ViewportHeight
    /\ rectLeft = 0
    /\ rectTop = RectTopSample
    /\ devicePixelRatio \in 0..MaxPixelRatio
    /\ now = Noon
    /\ containerWidth \in SurfaceWidths
    /\ InitGrid

NextSurface ==
    \/ \E w \in SurfaceWidths : Resize(w)
    \/ Click(MainPointerX, MainPointerY)
    \/ Back
    \/ MouseMove(MainPointerX, MainPointerY)
    \/ MouseLeave
    \/ IntervalFire
    \/ \E f \in rafPending : Tick(f)

SpecSurface == InitSurface /\ [][NextSurface]_vars

-----------------------------------------------------------------------------
\* The today dot over the time of day, hovered and selected

\* times of day: midnight, its first second, noon, the last second
ClockSamples ==
    {[hours |-> 0, minutes |-> 0, seconds |-> 0],
     [hours |-> 0, minutes |-> 0, seconds |-> 1],
     Noon,
     [hours |-> 23, minutes |-> 59, seconds |-> 59]}

\* the wall clock moves on within the day
ClockAdvance(t) ==
    /\ lastPointer' = NoPointer
    /\ SecondsPassed(t) > SecondsPassed(now)
    /\ now' = t
    /\ UNCHANGED <<propVars, innerWidth, innerHeight, rectLeft, rectTop,
                   devicePixelRatio, animVars, containerWidth, canvasVars,
                   zoomedIndex, focusedDate, mounted, dimensionsWidth, hoveredIndex,
                   intervalActive, ranUnmounted, retargets, probe>>

InitClock ==
    /\ host = "App"
    /\ calendarType = "main"
    /\ customDotSize = AppDotSize
    /\ calendarId = "main"
    /\ localStorage = EmptyStorage
    /\ dateNow = 0
    /\ returned = NoReturn
    /\ customGap = AppDotGap
    /\ totalDots = MainDots
    /\ passedDots \in {0, MainDots \div 2}
    /\ getDotColor = NoOverride
    /\ cssDotSize = NaN
    /\ cssDotGap = NaN
    /\ innerWidth = ViewportWidth
    /\ innerHeight = ViewportHeight
    /\ rectLeft = 0
    /\ rectTop = RectTopSample
    /\ devicePixelRatio = 2
    /\ now = [hours |-> 0, minutes |-> 0, seconds |-> 0]
    /\ containerWidth = ViewportWidth
    /\ InitGrid

NextClock ==
    \/ \E t \in ClockSamples : ClockAdvance(t)
    \/ Click(MainPointerX, MainPointerY)
    \/ Back
    \/ MouseMove(MainPointerX, MainPointerY)
    \/ MouseLeave
    \/ IntervalFire
    \/ \E f \in rafPending : Tick(f)

SpecClock == InitClock /\ [][NextClock]_vars

\* the length of the part of [lo, hi] that lies in [a, b]
Overlap(a, b, lo, hi) == Max(0, Min(b, hi) - Max(a, lo))

\* The part of the vertical extent of a painted dot that its gradient colors
\* in the today color, times SecondsPerDay.  Along the gradient line a point
\* lies u = (from - y) * SecondsPerDay below-to-above the start; stop s lies at
\* s.offset * (from - to); between two stops of one color the color is that
\* color, before the first stop the first color, after the last the last
TodayLength(paint) ==
    LET g == paint.gradient
        d == g.from - g.to
        lo == (g.from - paint.radius) * SecondsPerDay
        hi == (g.from + paint.radius) * SecondsPerDay
        n == Len(g.stops)
        At(j) == g.stops[j].offset * d
        Seg(j) == IF g.stops[j].color = TodayColor /\ g.stops[j + 1].color = TodayColor
                  THEN Overlap(At(j), At(j + 1), lo, hi) ELSE 0
        RECURSIVE Sum(_)
        Sum(j) == IF j >= n THEN 0 ELSE Seg(j) + Sum(j + 1)
        before == IF g.stops[1].color = TodayColor THEN Max(0, Min(At(1), hi) - lo) ELSE 0
        after == IF g.stops[n].color = TodayColor THEN Max(0, hi - Max(At(n), lo)) ELSE 0
    IN  before + Sum(1) + after

\* C22: of the vertical extent of the today dot the gradient colors the
\* fraction secondsPassed / 86400 in the today color, measured from the
\* bottom: nothing at midnight, and all of it for a fraction of 1
C22_TodayShareIsDayFraction ==
    (passedDots < totalDots /\ IsPainted(passedDots)
        /\ Painted(passedDots).fill = "gradient") =>
        LET paint == Painted(passedDots)
            sp == SecondsPassed(paint.clock)
        IN  /\ TodayLength(paint) = sp * 2 * paint.radius
            /\ sp = 0 => TodayLength(paint) = 0
            /\ sp = SecondsPerDay => TodayLength(paint) = 2 * paint.radius * SecondsPerDay
            /\ paint.gradient.from > paint.gradient.to

\* the today dot drawn hovered in the first second of the day
C22_Witness ==
    /\ passedDots = 0
    /\ hoveredIndex = 0
    /\ IsPainted(0)
    /\ Painted(0).fill = "gradient"
    /\ Painted(0).hovered
    /\ SecondsPassed(Painted(0).clock) = 1
    /\ TodayLength(Painted(0)) = 2 * Painted(0).radius

\* C1: with no focus, the centre of every dot i as drawn is resolved by the
\* click hit test to i, and a click there gives i to onDotClick
C1_CenterClickHitsCell ==
    /\ zoomedIndex = Null =>
         \A i \in 0..(totalDots - 1) :
            ClickTarget(CellCenterX(i, DrawMetrics), CellCenterY(i, DrawMetrics)) = i
    /\ \A i \in 0..(totalDots - 1) :
         (lastPointer.kind = "click" /\ lastPointer.focus = Null /\ PointerAtCenterOf(i))
            => lastPointer.fired = i

C1_Witness ==
    /\ lastPointer.kind = "click"
    /\ lastPointer.focus = Null
    /\ lastPointer.fired = 2
    /\ PointerAtCenterOf(2)

\* C2: getGridMetrics returns at least one column for every width, and exactly
\* one column for a width of 0 or less
C2_ColumnsAtLeastOne ==
    probe.width # Null =>
        /\ probe.cols >= 1
        /\ probe.width <= 0 => probe.cols = 1

C2_Witness == probe.width # Null /\ probe.width < 0 /\ probe.cols = 1

\* C3: whenever the click or the hover hit test yields index i, the pointer
\* lies in the pitch square of dot i
C3_HitOnlyInsideSquare ==
    /\ (lastPointer.kind = "click" /\ lastPointer.fired # NoCall)
          => PointerInSquareOf(lastPointer.fired)
    /\ (lastPointer.kind = "move" /\ hoveredIndex # Null)
          => PointerInSquareOf(hoveredIndex)

\* C4 as claimed: a click in the gap between dots gives no index to onDotClick
C4_GapClickRejected ==
    (lastPointer.kind = "click" /\ PointerInGap) => lastPointer.fired = NoCall

\* C4 as amended: the click test is the whole-square test of hover: with no
\* focus, a click in the pitch square of dot i, the gap included, gives i to
\* onDotClick
C4_GapClickHitsSquare ==
    \A i \in 0..(totalDots - 1) :
        (lastPointer.kind = "click" /\ lastPointer.focus = Null /\ PointerInSquareOf(i))
            => lastPointer.fired = i

C4_Witness ==
    /\ lastPointer.kind = "click"
    /\ PointerInGap
    /\ lastPointer.fired # NoCall
    /\ PointerInSquareOf(lastPointer.fired)

\* C5: while zoomedIndex is a dot index, no click calls onDotClick and every
\* pointer move leaves hoveredIndex null
C5_NoHitTestWhileFocused ==
    IsNumber(lastPointer.focus) =>
        /\ lastPointer.kind = "click" => lastPointer.fired = NoCall
        /\ lastPointer.kind = "move" => hoveredIndex = Null

\* a click and a move on the centre of the first dot while a dot is focused
C5_Witness ==
    /\ lastPointer.kind = "move"
    /\ IsNumber(lastPointer.focus)
    /\ PointerAtCenterOf(0)
    /\ hoveredIndex = Null

\* C6 as claimed: while the transform is not the identity, the zoom-out
\* included, no click reaches onDotClick and no move sets hoveredIndex
C6_NoHitTestWhileTransformed ==
    ~lastPointer.atRest =>
        /\ lastPointer.kind = "click" => lastPointer.fired = NoCall
        /\ lastPointer.kind = "move" => hoveredIndex = Null

\* C7: with the focus fixed and ticks a bounded time apart, the transform
\* reaches the target exactly after finitely many ticks and every later tick
\* leaves it there
C7_AnimationConverges == <>[](currentTransform = TargetNow)

\* a zoom that came to rest on its target after ticks
C7_Witness ==
    /\ IsNumber(zoomedIndex)
    /\ currentTransform = TargetNow
    /\ currentTransform # Identity
    /\ animationFrameRef = 0
    /\ rafPending = {}
    /\ sinceLastRender = MaxIdle

Between(a, b, c) == (a <= b /\ b <= c) \/ (c <= b /\ b <= a)

\* C8 as claimed: a focus change during an animation leaves the transform
\* where it is, and every change of the transform goes from the old value
\* towards the target of the new focus
C8_RetargetContinues ==
    [][/\ (zoomedIndex' # zoomedIndex /\ InFlight)
            => currentTransform' = currentTransform
       /\ currentTransform' # currentTransform
            => /\ Between(currentTransform.x, currentTransform'.x, TargetNow'.x)
               /\ Between(currentTransform.y, currentTransform'.y, TargetNow'.y)
               /\ Between(currentTransform.k, currentTransform'.k, TargetNow'.k)]_vars

\* C9 as claimed: only a tick changes the transform
C9_OnlyTicksMoveTransform ==
    [][currentTransform' # currentTransform => \E f \in rafPending : Tick(f)]_vars

\* C10: once the grid is unmounted no animation frame is requested, the
\* interval is cleared, and no tick or interval callback ever runs
C10_NothingRunsAfterUnmount ==
    /\ ~ranUnmounted
    /\ ~mounted => (rafPending = {} /\ ~intervalActive)

\* unmounted before the tick requested at mount ran
C10_Witness ==
    /\ ~mounted
    /\ sinceLastRender = Null
    /\ animationFrameRef = 0

\* C16 as claimed: the scale of the transform and the scale of every target
\* of a focused dot are at least 1
C16_ScaleAtLeastOne ==
    /\ currentTransform.k >= KU
    /\ IsNumber(zoomedIndex) => TargetNow.k >= KU

\* C17: a tick moves no component of the transform away from the target of
\* its focus and none beyond it
C17_TickApproachesTarget ==
    [][(\E f \in rafPending : Tick(f)) =>
          /\ Between(currentTransform.x, currentTransform'.x, TargetNow.x)
          /\ Between(currentTransform.y, currentTransform'.y, TargetNow.y)
          /\ Between(currentTransform.k, currentTransform'.k, TargetNow.k)]_vars

\* a zoom-in under way: the scale strictly between 1 and the target scale
C17_Witness ==
    /\ IsNumber(zoomedIndex)
    /\ sinceLastRender = 0
    /\ KU < currentTransform.k
    /\ currentTransform.k < TargetNow.k

\* C18 as claimed: with the transform on its target and no frame requested, a
\* step of the mounted grid that leaves the target where it is requests no
\* frame
C18_IdleUntilTargetChanges ==
    [][(mounted /\ currentTransform = TargetNow /\ rafPending = {}
           /\ TargetNow' = TargetNow)
          => rafPending' = {}]_vars

\* C19 as claimed: while zoomedIndex is a dot index, hoveredIndex is null and
\* no dot is painted hovered
C19_NoHoverWhileFocused ==
    IsNumber(zoomedIndex) =>
        /\ hoveredIndex = Null
        /\ \A i \in 0..(totalDots - 1) : IsPainted(i) => ~Painted(i).hovered

\* C20 as claimed: the canvas a draw leaves behind has the dimensions the next
\* draw of the same width, height and pixel ratio requires, so that of two
\* such draws at most the first resizes the canvas
C20_SameInputsResizeOnce ==
    mounted => ~NeedsResize(Canvas, AvailableWidth(dimensionsWidth, canvasStyleWidth))

\* C21 as claimed: a draw that finds no width to draw in (dimensions.width is
\* 0) is skipped: it neither sizes the canvas nor paints a dot
C21_ZeroWidthDrawSkipped ==
    [][(mounted' /\ dimensionsWidth' = 0) => UNCHANGED canvasVars]_vars

C24_GlowOfCellIsItsOwn ==
    \A i \in 0..(totalDots - 1) :
        IsPainted(i) =>
            LET alone == PaintCell(i, CustomColor(getDotColor, i), DefaultContext,
                                   hoveredIndex, Grown(zoomedIndex, currentTransform),
                                   ResolvedDotSize).paint
            IN  /\ Painted(i).glow = alone.glow
                /\ Painted(i).glowColor = alone.glowColor
                /\ Painted(i).blur = alone.blur

\* C25: while dot i is focused the target transform takes the centre of dot i
\* as draw lays it out, padding included, to the centre of the window as seen
\* from the canvas (to within the resolution of the transform), at the scale
\* min(canvas width, window height) / (pitch * 5); with no focus the target is
\* the identity
C25_TargetCentresFocusedDot ==
    mounted =>
        /\ ~IsNumber(zoomedIndex) => TargetNow = [x |-> 0, y |-> 0, k |-> KU]
        /\ (IsNumber(zoomedIndex) /\ 0 <= zoomedIndex /\ zoomedIndex < totalDots) =>
              LET m == DrawMetrics
                  t == TargetNow
                  centerX2 == innerWidth - 2 * rectLeft
                  centerY2 == innerHeight - 2 * rectTop
                  viewport == Min(CanvasClientWidth(canvasStyleWidth), innerHeight)
              IN  /\ Abs(CellCenterX(zoomedIndex, m) * t.k * TU + 2 * KU * t.x
                            - centerX2 * TU * KU) <= 2 * KU
                  /\ Abs(CellCenterY(zoomedIndex, m) * t.k * TU + 2 * KU * t.y
                            - centerY2 * TU * KU) <= 2 * KU
                  /\ t.k * m.effectiveDotWidth * ZoomDots <= viewport * KU
                  /\ viewport * KU < (t.k + 1) * m.effectiveDotWidth * ZoomDots

\* the zoom came to rest on the second dot
C25_Witness ==
    /\ mounted
    /\ zoomedIndex = 1
    /\ currentTransform = TargetNow
    /\ rafPending = {}

\* the largest blur with which a painted dot casts a visible shadow: that of
\* its fill, or glowBlur for the circle behind the today dot
GlowBlur(paint) ==
    Max(IF paint.glow THEN paint.blur ELSE 0,
        IF paint.todayGlow THEN 2 * ResolvedDotSize ELSE 0)

\* the paint of dot i in the frame the same draw paints with no dot hovered
PaintedAtRest(i) ==
    DrawFrameWith(getDotColor, Null, Grown(zoomedIndex, currentTransform)).cells[i + 1]

\* C26 as claimed: a hovered dot that is neither the today dot nor colored by
\* getDotColor is filled with the lighter tint and has no glow; a hovered
\* today dot and a hovered dot colored by getDotColor keep their fill and glow
\* with a larger blur than they have when not hovered
C26_HoverResolution ==
    \A i \in 0..(totalDots - 1) :
        (i = hoveredIndex /\ IsPainted(i) /\ ~frame.aborted) =>
            /\ (i # passedDots /\ CustomColor(getDotColor, i) = ColorNull) =>
                  /\ Painted(i).color = IF i < passedDots THEN HoverPastColor
                                                          ELSE HoverFutureColor
                  /\ GlowBlur(Painted(i)) = 0
            /\ ((i = passedDots /\ CustomColor(getDotColor, i) = ColorNull)
                    \/ OverrideGivesColor(i)) =>
                  /\ Painted(i).color = PaintedAtRest(i).color
                  /\ GlowBlur(Painted(i)) > GlowBlur(PaintedAtRest(i))

\* C27: a dot that is not hovered and for which getDotColor gives a color
\* glows exactly if that color is neither the past nor the future color, and
\* then in that color, with a blur of dotSize
C27_OverrideGlow ==
    \A i \in 0..(totalDots - 1) :
        (IsPainted(i) /\ OverrideGivesColor(i) /\ i # hoveredIndex) =>
            /\ Painted(i).glow
                  <=> CustomColor(getDotColor, i) \notin {PastColor, FutureColor}
            /\ Painted(i).glow =>
                  /\ Painted(i).glowColor = CustomColor(getDotColor, i)
                  /\ Painted(i).blur = ResolvedDotSize

\* a dot in the past color without glow after a dot that glows in its color,
\* while another dot is hovered
C27_Witness ==
    /\ hoveredIndex = 2
    /\ IsPainted(0) /\ IsPainted(1)
    /\ CustomColor(getDotColor, 0) = HabitColor
    /\ Painted(0).glow /\ Painted(0).glowColor = HabitColor
    /\ CustomColor(getDotColor, 1) = PastColor
    /\ ~Painted(1).glow

\* C28: with no focus, a pointer move inside the pitch square of dot i as laid
\* out, the gap to its right and below included, sets hoveredIndex to i; a
\* pointer leave sets it to null
C28_HoverHitsWholeSquare ==
    /\ \A i \in 0..(totalDots - 1) :
          (lastPointer.kind = "move" /\ lastPointer.focus = Null /\ PointerInSquareOf(i))
              => hoveredIndex = i
    /\ lastPointer.kind = "leave" => hoveredIndex = Null

\* a move into the gap beside a dot of the second column or row
C28_Witness ==
    /\ lastPointer.kind = "move"
    /\ lastPointer.focus = Null
    /\ PointerInGap
    /\ IsNumber(hoveredIndex)
    /\ hoveredIndex > 0
    /\ PointerInSquareOf(hoveredIndex)

\* C29: while the grid is mounted its 60 s interval is set, whatever was
\* rendered since; when it fires the dots are painted anew with the time of
\* day read then, the transform stays as it is and no frame is requested
C29_PeriodicRepaintOnly ==
    /\ [](mounted => intervalActive)
    /\ [][IntervalFire =>
            /\ currentTransform' = currentTransform
            /\ rafPending' = rafPending
            /\ animationFrameRef' = animationFrameRef
            /\ mounted => /\ Len(frame'.cells) = totalDots
                          /\ \A i \in 1..totalDots : frame'.cells[i].clock = now]_vars

\* the idle grid shows the gradient of noon: painted after the clock moved
\* on from the midnight of the mount, with no frame requested
C29_Witness ==
    /\ mounted
    /\ intervalActive
    /\ zoomedIndex = Null
    /\ hoveredIndex = Null
    /\ currentTransform = Identity
    /\ rafPending = {}
    /\ animationFrameRef = 0
    /\ now = Noon
    /\ IsPainted(0)
    /\ Painted(0).clock = Noon

\* C30 as claimed: the zoomedIndex the views pass to the grid is null or the
\* index of a dot, whatever was clicked, dismissed or navigated to
C30_FocusIndexInRange ==
    zoomedIndex = Null \/ (0 <= zoomedIndex /\ zoomedIndex < totalDots)

-----------------------------------------------------------------------------
\* The storage module as the dashboard and the calendar view call it, from an
\* empty localStorage; no grid is mounted

\* the types the dashboard's form offers
HabitTypes == {"habit_good", "habit_bad"}

\* the times of day of the dates tried, in milliseconds: midnight and noon
TimesOfDay == {0, 43200000}

HabitDates == {DateOf(day, ms) : day \in 0..MaxDay, ms \in TimesOfDay}

gridVars == <<gridProps, getDotColor, windowVars, animVars, containerWidth, canvasVars,
              zoomedIndex, focusedDate, mounted, dimensionsWidth, hoveredIndex,
              intervalActive, lastPointer, ranUnmounted, retargets, probe>>

\* the stored calendar list as getItem and JSON.parse give it
StoredCalendars ==
    IF localStorage.calendars.stored THEN localStorage.calendars.value ELSE <<>>

CallGetCalendars ==
    /\ localStorage' = GetCalendars(localStorage, dateNow).store
    /\ returned' = [op |-> "getCalendars", id |-> "", date |-> DateOf(0, 0),
                    value |-> GetCalendars(localStorage, dateNow).result]
    /\ UNCHANGED <<dateNow, gridVars>>

CallCreateCalendar(name, type) ==
    /\ Len(StoredCalendars) < MaxCalendars
    /\ localStorage' = CreateCalendar(localStorage, name, type, dateNow).store
    /\ returned' = [op |-> "createCalendar", id |-> CalId(dateNow), date |-> DateOf(0, 0),
                    value |-> CreateCalendar(localStorage, name, type, dateNow).result]
    /\ UNCHANGED <<dateNow, gridVars>>

CallDeleteCalendar(id) ==
    /\ localStorage' = DeleteCalendar(localStorage, id, dateNow)
    /\ returned' = [op |-> "deleteCalendar", id |-> id, date |-> DateOf(0, 0),
                    value |-> FALSE]
    /\ UNCHANGED <<dateNow, gridVars>>

CallToggleHabit(id, date) ==
    /\ localStorage' = ToggleHabit(localStorage, id, date).store
    /\ returned' = [op |-> "toggleHabit", id |-> id, date |-> date,
                    value |-> ToggleHabit(localStorage, id, date).result]
    /\ UNCHANGED <<dateNow, gridVars>>

CallGetHabitStatus(id, date) ==
    /\ returned' = [op |-> "getHabitStatus", id |-> id, date |-> date,
                    value |-> GetHabitStatus(localStorage, id, date)]
    /\ UNCHANGED <<localStorage, dateNow, gridVars>>

\* the clock of Date.now() moves on
MillisecondPasses ==
    /\ dateNow < MaxMillis
    /\ dateNow' = dateNow + 1
    /\ UNCHANGED <<localStorage, returned, gridVars>>

\* the dashboard is shown: no grid is mounted, nothing was drawn or requested
InitNoGrid ==
    /\ host = "CalendarView"
    /\ calendarType = "main"
    /\ calendarId = "main"
    /\ totalDots = MainDots
    /\ passedDots = MainDots \div 2
    /\ customDotSize = CalendarDotSize
    /\ customGap = CalendarDotGap
    /\ cssDotSize = NaN
    /\ cssDotGap = NaN
    /\ getDotColor = AllNull
    /\ dateNow = 0
    /\ returned = NoReturn
    /\ innerWidth = ViewportWidth
    /\ innerHeight = ViewportHeight
    /\ rectLeft = 0
    /\ rectTop = RectTopSample
    /\ devicePixelRatio = 2
    /\ now = Noon
    /\ containerWidth = ViewportWidth
    /\ zoomedIndex = Null
    /\ focusedDate = Null
    /\ mounted = FALSE
    /\ hoveredIndex = Null
    /\ dimensionsWidth = 0
    /\ canvasStyleWidth = Undef
    /\ canvasPixelWidth = DefaultCanvasWidth
    /\ canvasPixelHeight = DefaultCanvasHeight
    /\ frame = [cells |-> <<>>, aborted |-> FALSE]
    /\ currentTransform = Identity
    /\ sinceLastRender = Null
    /\ rafPending = {}
    /\ animationFrameRef = 0
    /\ intervalActive = FALSE
    /\ lastPointer = NoPointer
    /\ ranUnmounted = FALSE
    /\ retargets = 0
    /\ probe = [width |-> Null, cols |-> Null]

InitStorage == InitNoGrid /\ localStorage = EmptyStorage

\* the calendar list over creations and deletions; habits are toggled on the
\* first day
NextStorage ==
    \/ CallGetCalendars
    \/ \E type \in HabitTypes : CallCreateCalendar("Habit", type)
    \/ \E id \in CalendarIds : CallDeleteCalendar(id)
    \/ \E id \in CalendarIds : CallToggleHabit(id, DateOfDot(0))
    \/ MillisecondPasses

SpecStorage == InitStorage /\ [][NextStorage]_vars

\* the calendars whose habits are toggled: the main one and the one made at
\* time 0
HabitIds == {"main", CalId(0)}

InitHabit == InitNoGrid /\ localStorage = HabitStorage("habit_good")

\* habit entries over calendars and dates
NextHabit ==
    \/ \E id \in HabitIds, date \in HabitDates : CallToggleHabit(id, date)
    \/ \E id \in HabitIds, date \in HabitDates : CallGetHabitStatus(id, date)

SpecHabit == InitHabit /\ [][NextHabit]_vars

\* the calendars of a list whose id is id
WithId(calendars, id) == {i \in DOMAIN calendars : calendars[i].id = id}

\* C31: every list getCalendars returns, and the list it would return in any
\* state, holds exactly one calendar with id 'main'; a call deleteCalendar('main')
\* leaves the stored calendar list and all habit data as they were
C31_OneMainCalendar ==
    /\ [](/\ Cardinality(WithId(GetCalendars(localStorage, dateNow).result, "main")) = 1
          /\ returned.op = "getCalendars"
                => Cardinality(WithId(returned.value, "main")) = 1)
    /\ [][(returned'.op = "deleteCalendar" /\ returned'.id = "main")
            => localStorage' = localStorage]_vars

\* deleteCalendar('main') was called on a store that holds main, another
\* calendar and a habit entry
C31_Witness ==
    /\ returned.op = "deleteCalendar"
    /\ returned.id = "main"
    /\ Len(StoredCalendars) >= 2
    /\ \E id \in CalendarIds : GetCalendarData(localStorage, id) # {}

-----------------------------------------------------------------------------
\* CalendarView on a habit calendar: clicks on past, present and future dots

InitHabitView ==
    /\ host = "CalendarView"
    /\ calendarType \in HabitTypes
    /\ calendarId = CalId(0)
    /\ customDotSize = CalendarDotSize
    /\ customGap = CalendarDotGap
    /\ totalDots = MainDots
    /\ passedDots \in 0..(MainDots \div 2)
    /\ localStorage = HabitStorage(calendarType)
    /\ dateNow = 0
    /\ returned = NoReturn
    /\ getDotColor = CalendarGetDotColor(localStorage)
    /\ cssDotSize = NaN
    /\ cssDotGap = NaN
    /\ innerWidth = ViewportWidth
    /\ innerHeight = ViewportHeight
    /\ rectLeft = 0
    /\ rectTop = RectTopSample
    /\ devicePixelRatio = 2
    /\ now = Noon
    /\ containerWidth = ViewportWidth
    /\ InitGrid

NextHabitView ==
    \/ \E i \in 0..(totalDots - 1) :
          Click(CellCenterX(i, DrawMetrics), CellCenterY(i, DrawMetrics))
    \/ \E i \in 0..(totalDots - 1) :
          MouseMove(CellCenterX(i, DrawMetrics), CellCenterY(i, DrawMetrics))
    \/ MouseLeave
    \/ \E f \in rafPending : Tick(f)
    \/ IntervalFire
    \/ LeaveCalendar
    \/ OpenCalendar

SpecHabitView == InitHabitView /\ [][NextHabitView]_vars

\* the set data with the membership of key flipped
Flipped(data, key) == IF key \in data THEN data \ {key} ELSE data \cup {key}

\* C32: in a habit calendar no focus index is ever set and no day view opened;
\* a click that reaches a dot after passedDots leaves localStorage as it was; a
\* click that reaches a dot up to passedDots flips the entry of that dot's date
\* in the calendar's data and changes nothing else that is stored
C32_HabitClickToggles ==
    /\ [](calendarType \in HabitTypes => zoomedIndex = Null /\ focusedDate = Null)
    /\ [][(/\ calendarType \in HabitTypes
            /\ lastPointer'.kind = "click"
            /\ lastPointer'.fired # NoCall)
           => IF lastPointer'.fired > passedDots
              THEN localStorage' = localStorage
              ELSE /\ GetCalendarData(localStorage', calendarId)
                        = Flipped(GetCalendarData(localStorage, calendarId),
                                  GetDateKey(DateOfDot(lastPointer'.fired)))
                   /\ localStorage'.calendars = localStorage.calendars
                   /\ \A id \in CalendarIds \ {calendarId} :
                         localStorage'.data[id] = localStorage.data[id]]_vars

\* a click on a future dot came after a click on a passed dot stored an entry
C32_Witness ==
    /\ calendarType \in HabitTypes
    /\ lastPointer.kind = "click"
    /\ lastPointer.fired # NoCall
    /\ lastPointer.fired > passedDots
    /\ GetCalendarData(localStorage, calendarId) # {}

\* C33: at most one animation frame is requested in any state; a tick that
\* requests the next frame has by then set the transform and painted the canvas
\* with it, and its request is the only one
C33_OneFramePending ==
    /\ [](Cardinality(rafPending) <= 1)
    /\ [][\A f \in rafPending :
            (Tick(f) /\ rafPending' # {})
            => /\ rafPending' = {[id |-> animationFrameRef', zoomed |-> f.zoomed]}
               /\ mounted =>
                    /\ frame' = DrawFrame(hoveredIndex,
                                          Grown(f.zoomed, currentTransform'))
                    /\ canvasStyleWidth'
                         = AvailableWidth(dimensionsWidth, canvasStyleWidth)]_vars

\* a tick of a zoom towards a hovered and clicked dot has run and asked for the
\* next frame
C33_Witness ==
    /\ mounted
    /\ IsNumber(zoomedIndex)
    /\ hoveredIndex = zoomedIndex
    /\ sinceLastRender = 0
    /\ currentTransform.k > KU
    /\ Cardinality(rafPending) = 1

\* the distance a component moves in a tick that comes one frame step after
\* the previous one
NormalStep(curr, target) == Abs(Lerp(curr, target, Factor(FrameStep)) - curr)

\* C34 as claimed: a tick that does not snap moves no component of the
\* transform farther than the step of a tick FrameStep frames after the
\* previous one, however long no tick was requested before it
C34_IdleTimeNotCounted ==
    [][\A f \in rafPending :
          (Tick(f) /\ ~CloseEnough(currentTransform, TargetNow))
          => /\ Abs(currentTransform'.x - currentTransform.x)
                  <= NormalStep(currentTransform.x, TargetNow.x)
             /\ Abs(currentTransform'.y - currentTransform.y)
                  <= NormalStep(currentTransform.y, TargetNow.y)
             /\ Abs(currentTransform'.k - currentTransform.k)
                  <= NormalStep(currentTransform.k, TargetNow.k)]_vars

-----------------------------------------------------------------------------
\* A grid rendered with onDotClick and without the optional prop zoomedIndex

InitOptional ==
    /\ host = "App"
    /\ calendarType = "main"
    /\ calendarId = "main"
    /\ localStorage = EmptyStorage
    /\ dateNow = 0
    /\ returned = NoReturn
    /\ totalDots = MaxDots
    /\ passedDots = totalDots \div 2
    /\ \E s \in SizeProps : customDotSize = s[1] /\ cssDotSize = s[2]
    /\ \E g \in GapProps : customGap = g[1] /\ cssDotGap = g[2]
    /\ getDotColor = NoOverride
    /\ innerWidth = ViewportWidth
    /\ innerHeight = ViewportHeight
    /\ rectLeft = 0
    /\ rectTop = RectTopSample
    /\ devicePixelRatio = 2
    /\ now = Noon
    /\ containerWidth \in HitWidths
    /\ InitGridWith(Undef)

NextOptional ==
    \/ \E x \in PointerXs, y \in PointerYs : Click(x, y)
    \/ \E x \in PointerXs, y \in PointerYs : MouseMove(x, y)
    \/ MouseLeave
    \/ \E f \in rafPending : Tick(f)

SpecOptional == InitOptional /\ [][NextOptional]_vars

\* C35 as claimed: a grid whose zoomedIndex is undefined has the identity for
\* its target, gives the dot under a click to onDotClick and sets hoveredIndex
\* to the dot under a pointer move, as a grid with zoomedIndex = null does
C35_UndefinedFocusIsNoFocus ==
    /\ zoomedIndex = Undef => TargetNow = Identity
    /\ \A i \in 0..(totalDots - 1) :
          /\ (lastPointer.kind = "click" /\ lastPointer.focus = Undef
                 /\ PointerInSquareOf(i))
               => lastPointer.fired = i
          /\ (lastPointer.kind = "move" /\ lastPointer.focus = Undef
                 /\ PointerInSquareOf(i))
               => hoveredIndex = i

\* C36 as claimed: the calendars of the stored list have pairwise distinct
\* ids, two created at the same millisecond included
C36_DistinctIds ==
    \A i, j \in DOMAIN StoredCalendars :
        StoredCalendars[i].id = StoredCalendars[j].id => i = j

\* C37: a call of toggleHabit returns the status getHabitStatus gives right
\* after it, which is the opposite of the status before; the entries of other
\* dates are as before; and a second call for the same calendar and date
\* gives back the data every calendar had before the first
C37_ToggleIsInvolution ==
    [][returned'.op = "toggleHabit" =>
         LET id == returned'.id
             date == returned'.date
             twice == ToggleHabit(localStorage', id, date).store
         IN  /\ returned'.value = GetHabitStatus(localStorage', id, date)
             /\ returned'.value = ~GetHabitStatus(localStorage, id, date)
             /\ \A other \in HabitDates :
                   GetDateKey(other) # GetDateKey(date)
                   => GetHabitStatus(localStorage', id, other)
                        = GetHabitStatus(localStorage, id, other)
             /\ \A c \in CalendarIds :
                   GetCalendarData(twice, c) = GetCalendarData(localStorage, c)
             /\ twice.calendars = localStorage.calendars]_vars

\* a toggle removed the entry of one date from data that holds another
C37_Witness ==
    /\ returned.op = "toggleHabit"
    /\ returned.value = FALSE
    /\ GetCalendarData(localStorage, returned.id) # {}


=============================================================================
